---- MODULE Spec2Model ----
(***************************************************************************)
(* Newton-Raphson solver of SofaCaribou (NewtonRaphsonSolver::solve) on a  *)
(* one degree-of-freedom mechanical state.  A vector is its single         *)
(* component, a dot product is a square.  The collaborators that are not   *)
(* the solver's own code (force assembly, tangent assembly, the linear     *)
(* solver) answer nondeterministically from small sets of values, NaN      *)
(* included.                                                               *)
(***************************************************************************)
EXTENDS Integers, Sequences, FiniteSets, TLC

\* Bounds of the explored values.
MaxNewton == 2     \* newton_iterations ranges over 0..MaxNewton
MaxF == 2          \* an assembled force component ranges over 0..MaxF, or NaN
MaxDx == 1         \* a linear-solver increment ranges over -MaxDx..MaxDx, or NaN
MaxPos == 1        \* positions explored: -MaxPos..MaxPos, or NaN

----------------------------------------------------------------------------
\* double arithmetic: a value is the exact rational <<num, den>>, den > 0, or NaN,
\* written <<0, 0>>.  Every comparison with NaN is false, every operation on NaN
\* gives NaN.

NaN == <<0, 0>>
R(n) == <<n, 1>>
Zero == R(0)
isnan(a) == a[2] = 0
FAdd(a, b) == IF isnan(a) \/ isnan(b) THEN NaN
              ELSE <<a[1] * b[2] + b[1] * a[2], a[2] * b[2]>>
FMul(a, b) == IF isnan(a) \/ isnan(b) THEN NaN ELSE <<a[1] * b[1], a[2] * b[2]>>
FLt(a, b) == ~isnan(a) /\ ~isnan(b) /\ a[1] * b[2] < b[1] * a[2]
FLe(a, b) == ~isnan(a) /\ ~isnan(b) /\ a[1] * b[2] <= b[1] * a[2]
FGt(a, b) == FLt(b, a)
\* SofaCaribou::Algebra::dot / vop.v_dot on a one-component vector
dot(a, b) == FMul(a, b)
\* integer-valued doubles are kept with denominator 1
Norm(a) == IF isnan(a) THEN NaN ELSE <<a[1] \div a[2], 1>>

\* The numerical floor of the divergence check, in the model's unit: the
\* smallest positive squared norm of the model is 1.
EPSILON == 1

\* unsigned (32 bit) counters, as <<high half, low half>> of 16 bits each
Half == 2 ^ 16
U32(n) == <<n \div Half, n % Half>>
\* the increment without the wrap to 0 at 2^32 - 1
U32Inc_Saturates(u) ==
    IF u[2] = Half - 1
    THEN (IF u[1] = Half - 1 THEN u ELSE <<u[1] + 1, 0>>)
    ELSE <<u[1], u[2] + 1>>
U32Inc(u) == IF u[2] = Half - 1
             THEN (IF u[1] = Half - 1 THEN <<0, 0>> ELSE <<u[1] + 1, 0>>)
             ELSE <<u[1], u[2] + 1>>
U32Dec(u) == IF u[2] = 0
             THEN (IF u[1] = 0 THEN <<Half - 1, Half - 1>> ELSE <<u[1] - 1, Half - 1>>)
             ELSE <<u[1], u[2] - 1>>
U32Lt(u, w) == u[1] < w[1] \/ (u[1] = w[1] /\ u[2] < w[2])

----------------------------------------------------------------------------
VARIABLES
    \* configuration (Data fields and link of the component)
    d_newton_iterations,
    d_correction_tolerance_threshold,
    d_residual_tolerance_threshold,
    l_linear_solver,                 \* "null", "sofa" (incompatible) or "caribou"
    \* function-local static of solve
    error_message_already_printed,
    \* outputs
    d_converged,
    p_squared_residuals,
    p_times,
    p_squared_initial_residual,
    timer_values,                    \* AdvancedTimer values set by this call:
                                     \* <<>> or <<has_converged, nb_iterations>>
    error_reported,                  \* the last solve call emitted msg_error
    reason,                          \* branch that ended the solve (the log line)
    \* mechanical state vectors
    x, v, f, dx, p_U,
    \* linear system buffers
    p_A, p_DX, p_F,
    \* locals of solve
    n_it, R_squared_norm, dx_squared_norm, du_squared_norm,
    converged, diverged, solved, pc,
    \* observation of the run
    last_call,                       \* "none", "noop" or "ran"
    x_entry, v_entry,                \* position / velocity when solve was entered
    n_assemblies,                    \* assemble_system_matrix calls of this solve
    n_linear_solves,                 \* linear_solver->solve calls of this solve
    n_rhs_assemblies,                \* assemble_rhs_vector calls of this solve
    \* the scene around the solver
    stiffness, target,               \* linear spring: residual stiffness*(target - x)
    prev_outputs,                    \* what the host read after an earlier solve:
                                     \* <<>> or <<x_entry, target, converged, iterations>>
    context,                         \* kinds of the LinearSolver objects of the node
    l_index,                         \* place in context of the solver init attached
    init_report,                     \* <<>> before init, then <<message, link seen>>
    other_calls,                     \* solve calls made on each other solver instance
    other_reports,                   \* msg_error lines each other instance emitted
    \* caribou::topology::Domain objects and the storage they refer to
    heap,                            \* address -> index table, Unused or Freed
    domains,                         \* name -> Domain object or Null
    domain_call,                     \* the last operation on a Domain, its outcome
    \* caribou::topology::engine::Grid
    m_number_of_subdivisions,        \* <<nx, ny>>
    m_cells,                         \* the cells of the grid
    grid_call                        \* the running or last call of Grid::get

topology == <<heap, domains, domain_call, m_number_of_subdivisions, m_cells,
              grid_call>>
scene == <<stiffness, target, prev_outputs, context, l_index, init_report,
           other_calls, other_reports, topology>>
config == <<d_newton_iterations, d_correction_tolerance_threshold,
            d_residual_tolerance_threshold, scene>>
outputs == <<d_converged, p_squared_residuals, p_times, p_squared_initial_residual,
             timer_values, reason>>
vectors == <<x, v, f, dx, p_U>>
buffers == <<p_A, p_DX, p_F>>
locals == <<n_it, R_squared_norm, dx_squared_norm, du_squared_norm,
            converged, diverged, solved>>
observed == <<x_entry, v_entry, n_assemblies, n_linear_solves, n_rhs_assemblies>>
vars == <<config, l_linear_solver, error_message_already_printed, outputs,
          error_reported, vectors, buffers, locals, pc, last_call, observed>>

\* configured tolerances: two that disable a criterion, one at most 1, one above 1
Tolerances == {R(-1), R(0), R(1), R(2)}
LinearSolvers == {"null", "sofa", "caribou"}
ForceValues == {NaN} \cup {R(n) : n \in 0..MaxF}
DxValues == {NaN} \cup {R(n) : n \in (0 - MaxDx)..MaxDx}
InRange(a) == isnan(a) \/ (a[1] >= 0 - MaxPos /\ a[1] <= MaxPos)

Between == {"idle", "done"}

----------------------------------------------------------------------------
\* has_valid_linear_solver with the null test alone, the dynamic_cast forgotten
has_valid_linear_solver_NullTestOnly == l_linear_solver /= "null"

\* NewtonRaphsonSolver::has_valid_linear_solver
has_valid_linear_solver == l_linear_solver /= "null" /\ l_linear_solver = "caribou"

\* the solver after construction
InitSolver ==
    /\ d_newton_iterations \in 0..MaxNewton
    /\ d_correction_tolerance_threshold \in Tolerances
    /\ d_residual_tolerance_threshold \in Tolerances
    /\ l_linear_solver \in LinearSolvers
    /\ error_message_already_printed = FALSE
    /\ d_converged = FALSE
    /\ p_squared_residuals = <<>>
    /\ p_times = <<>>
    /\ p_squared_initial_residual = Zero
    /\ timer_values = <<>>
    /\ error_reported = FALSE
    /\ reason = "none"
    /\ x = Zero /\ v = Zero /\ f = Zero /\ dx = Zero /\ p_U = Zero
    /\ p_A = "none" /\ p_DX = Zero /\ p_F = Zero
    /\ n_it = U32(0)
    /\ R_squared_norm = Zero /\ dx_squared_norm = Zero /\ du_squared_norm = Zero
    /\ converged = FALSE /\ diverged = FALSE /\ solved = FALSE
    /\ pc = "idle"
    /\ last_call = "none"
    /\ x_entry = Zero /\ v_entry = Zero
    /\ n_assemblies = 0 /\ n_linear_solves = 0 /\ n_rhs_assemblies = 0

\* no Domain object, no Grid call
Null == [p_mesh |-> 0, p_buffer |-> 0, p_elements |-> [data |-> 0, rows |-> 0],
         origin |-> "none"]
Call(op, a, b, index, rows, outcome, before) ==
    [op |-> op, a |-> a, b |-> b, index |-> index, rows |-> rows,
     outcome |-> outcome, before |-> before]
NoDomainCall == Call("none", "", "", 0, 0, "", Null)
NoGridCall == [pc |-> "idle", depth |-> 0, grid_coordinates |-> <<0, 0>>,
               result |-> -1]
TopologyIdle ==
    /\ heap = <<>>
    /\ domains = <<>>
    /\ domain_call = NoDomainCall
    /\ m_number_of_subdivisions = <<1, 1>>
    /\ m_cells = <<>>
    /\ grid_call = NoGridCall

\* the solver in a scene whose forces and linear solver are left open
Init ==
    /\ InitSolver
    /\ stiffness = 1 /\ target = 0
    /\ prev_outputs = <<>>
    /\ context = <<>> /\ l_index = 0
    /\ init_report = <<>>
    /\ other_calls = <<>> /\ other_reports = <<>>
    /\ TopologyIdle

----------------------------------------------------------------------------
\* The tests of solve, as the code writes them.

\* line 54: if (not error_message_already_printed), reporting on every call instead
ShouldReport_EveryCall(already_printed) == TRUE

\* line 54: if (not error_message_already_printed)
ShouldReport(already_printed) == ~already_printed

\* line 197 with < for <=
InitialResidualTest_Strict(tol_r, R2) == FGt(tol_r, Zero) /\ FLt(R2, tol_r)

\* line 197: residual_tolerance_threshold > 0 && R_squared_norm <= residual_tolerance_threshold
InitialResidualTest(tol_r, R2) == FGt(tol_r, Zero) /\ FLe(R2, tol_r)

\* line 208 with <= for <
LoopCondition_OffByOne(conv, it, newton_iterations) ==
    ~conv /\ (U32Lt(it, U32(newton_iterations)) \/ it = U32(newton_iterations))

\* line 208 without the test of converged
LoopCondition_IgnoresConverged(conv, it, newton_iterations) ==
    U32Lt(it, U32(newton_iterations))

\* line 208 without the iteration limit
LoopCondition_NoLimit(conv, it, newton_iterations) == ~conv

\* line 208: not converged and n_it < newton_iterations
LoopCondition(conv, it, newton_iterations) ==
    ~conv /\ U32Lt(it, U32(newton_iterations))

\* line 275 without the floor on U.U
DivergenceTest_NoFloor(R2, dx2, du2) == isnan(R2) \/ isnan(dx2)

\* line 275: isnan(R) or isnan(dx.dx) or U.U < EPSILON
DivergenceTest(R2, dx2, du2) == isnan(R2) \/ isnan(dx2) \/ FLt(du2, R(EPSILON))

\* line 294 without correction_tolerance_threshold > 0
CorrectionTest_NoGuard(tol_c, dx2, du2) == FLt(dx2, FMul(FMul(tol_c, tol_c), du2))

\* line 294 with <= for <
CorrectionTest_NonStrict(tol_c, dx2, du2) ==
    FGt(tol_c, Zero) /\ FLe(dx2, FMul(FMul(tol_c, tol_c), du2))

\* line 294, with squared_correction_threshold of line 127
CorrectionTest(tol_c, dx2, du2) ==
    FGt(tol_c, Zero) /\ FLt(dx2, FMul(FMul(tol_c, tol_c), du2))

\* line 302 without residual_tolerance_threshold > 0
ResidualTest_NoGuard(tol_r, R2, residuals) ==
    FLt(R2, FMul(FMul(tol_r, tol_r), residuals[1]))

\* line 302, with squared_residual_threshold of line 126
ResidualTest(tol_r, R2, residuals) ==
    FGt(tol_r, Zero) /\ FLt(R2, FMul(FMul(tol_r, tol_r), residuals[1]))

\* line 316: not converged and not diverged and n_it == newton_iterations - 1,
\* on the decremented unsigned counter
IterationLimitTest(conv, div, it, newton_iterations) ==
    ~conv /\ ~div /\ it = U32Dec(U32(newton_iterations))

----------------------------------------------------------------------------
\* The host sets the linear_solver link between two solve calls.
SetLinearSolver ==
    /\ pc \in Between
    /\ \E l \in LinearSolvers : l /= l_linear_solver /\ l_linear_solver' = l
    /\ UNCHANGED <<config, error_message_already_printed, outputs, error_reported,
                   vectors, buffers, locals, pc, last_call, observed>>

\* solve, line 46: the host calls solve; this call has reported nothing yet.
SolveEnter ==
    /\ pc \in Between
    /\ pc' = "entered"
    /\ error_reported' = FALSE
    /\ UNCHANGED <<config, l_linear_solver, error_message_already_printed, outputs,
                   vectors, buffers, locals, last_call, observed>>

\* solve, lines 51-62: no valid linear solver, report once and return.
SolveWithoutLinearSolver ==
    /\ pc = "entered"
    /\ ~has_valid_linear_solver
    /\ error_reported' = ShouldReport(error_message_already_printed)
    /\ error_message_already_printed' = TRUE
    /\ pc' = "done"
    /\ last_call' = "noop"
    /\ UNCHANGED <<config, l_linear_solver, outputs, vectors, buffers, locals, observed>>

\* lines 63-178 without the clear() of the two histories (lines 131-137)
SolveBegin_KeepsHistories ==
    /\ pc = "entered"
    /\ has_valid_linear_solver
    /\ error_message_already_printed' = FALSE
    /\ f' = Zero /\ dx' = Zero /\ p_U' = Zero
    /\ n_it' = U32(0)
    /\ R_squared_norm' = Zero /\ dx_squared_norm' = Zero /\ du_squared_norm' = Zero
    /\ converged' = FALSE /\ diverged' = FALSE /\ solved' = FALSE
    /\ UNCHANGED <<p_squared_residuals, p_times>>
    /\ p_A' = "cleared" /\ p_DX' = Zero /\ p_F' = Zero
    /\ reason' = "none"
    /\ timer_values' = <<>>
    /\ pc' = "first_residual"
    /\ last_call' = "ran"
    /\ x_entry' = x /\ v_entry' = v
    /\ n_assemblies' = 0 /\ n_linear_solves' = 0 /\ n_rhs_assemblies' = 0
    /\ UNCHANGED <<config, l_linear_solver, d_converged, p_squared_initial_residual,
                   error_reported, x, v>>

\* lines 63-178 without the clear of U (line 108)
SolveBegin_KeepsU ==
    /\ pc = "entered"
    /\ has_valid_linear_solver
    /\ error_message_already_printed' = FALSE
    /\ f' = Zero /\ dx' = Zero /\ p_U' = p_U
    /\ n_it' = U32(0)
    /\ R_squared_norm' = Zero /\ dx_squared_norm' = Zero /\ du_squared_norm' = Zero
    /\ converged' = FALSE /\ diverged' = FALSE /\ solved' = FALSE
    /\ p_squared_residuals' = <<>>
    /\ p_times' = <<>>
    /\ p_A' = "cleared" /\ p_DX' = Zero /\ p_F' = Zero
    /\ reason' = "none"
    /\ timer_values' = <<>>
    /\ pc' = "first_residual"
    /\ last_call' = "ran"
    /\ x_entry' = x /\ v_entry' = v
    /\ n_assemblies' = 0 /\ n_linear_solves' = 0 /\ n_rhs_assemblies' = 0
    /\ UNCHANGED <<config, l_linear_solver, d_converged, p_squared_initial_residual,
                   error_reported, x, v>>

\* solve, lines 63-178: re-arm the report, clear f, dx and U, reset the locals and
\* the histories, create the system buffers.
SolveBegin ==
    /\ pc = "entered"
    /\ has_valid_linear_solver
    /\ error_message_already_printed' = FALSE
    /\ f' = Zero /\ dx' = Zero /\ p_U' = Zero
    /\ n_it' = U32(0)
    /\ R_squared_norm' = Zero /\ dx_squared_norm' = Zero /\ du_squared_norm' = Zero
    /\ converged' = FALSE /\ diverged' = FALSE /\ solved' = FALSE
    /\ p_squared_residuals' = <<>>
    /\ p_times' = <<>>
    /\ p_A' = "cleared" /\ p_DX' = Zero /\ p_F' = Zero
    /\ reason' = "none"
    /\ timer_values' = <<>>
    /\ pc' = "first_residual"
    /\ last_call' = "ran"
    /\ x_entry' = x /\ v_entry' = v
    /\ n_assemblies' = 0 /\ n_linear_solves' = 0 /\ n_rhs_assemblies' = 0
    /\ UNCHANGED <<config, l_linear_solver, d_converged, p_squared_initial_residual,
                   error_reported, x, v>>

\* solve, lines 188-202: assemble the force vector, take the initial residual.
FirstResidual ==
    /\ pc = "first_residual"
    /\ \E force \in ForceValues :
        /\ f' = force /\ p_F' = force
        /\ R_squared_norm' = dot(force, force)
        /\ p_squared_initial_residual' = dot(force, force)
        /\ converged' = InitialResidualTest(d_residual_tolerance_threshold,
                                            dot(force, force))
        /\ reason' = IF InitialResidualTest(d_residual_tolerance_threshold,
                                            dot(force, force))
                     THEN "equilibrium" ELSE reason
    /\ n_rhs_assemblies' = n_rhs_assemblies + 1
    /\ pc' = "loop"
    /\ UNCHANGED <<config, l_linear_solver, error_message_already_printed,
                   d_converged, p_squared_residuals, p_times, timer_values,
                   error_reported, x, v, dx, p_U, p_A, p_DX,
                   n_it, dx_squared_norm, du_squared_norm, diverged, solved,
                   last_call, x_entry, v_entry, n_assemblies, n_linear_solves>>

\* solve, line 208: the loop condition.
LoopTest ==
    /\ pc = "loop"
    /\ pc' = IF LoopCondition(converged, n_it, d_newton_iterations)
             THEN "assemble" ELSE "after_loop"
    /\ UNCHANGED <<config, l_linear_solver, error_message_already_printed, outputs,
                   error_reported, vectors, buffers, locals, last_call, observed>>

\* solve, lines 212-216: clear and assemble the system matrix.
AssembleMatrix ==
    /\ pc = "assemble"
    /\ p_A' = "assembled"
    /\ n_assemblies' = n_assemblies + 1
    /\ pc' = "linear_solve"
    /\ UNCHANGED <<config, l_linear_solver, error_message_already_printed, outputs,
                   error_reported, vectors, p_DX, p_F, locals, last_call,
                   x_entry, v_entry, n_linear_solves, n_rhs_assemblies>>

\* lines 218-225 without the break on a failed linear solve
LinearSolve_NoBreak ==
    /\ pc = "linear_solve"
    /\ \E ok \in BOOLEAN, increment \in DxValues :
        /\ InRange(FAdd(x, increment))
        /\ solved' = ok
        /\ p_DX' = increment
        /\ diverged' = IF ok THEN diverged ELSE TRUE
        /\ pc' = "propagate"
    /\ n_linear_solves' = n_linear_solves + 1
    /\ UNCHANGED <<config, l_linear_solver, error_message_already_printed, outputs,
                   error_reported, vectors, p_A, p_F, n_it, R_squared_norm,
                   dx_squared_norm, du_squared_norm, converged, last_call,
                   x_entry, v_entry, n_assemblies, n_rhs_assemblies>>

\* lines 218-225 calling the linear solver again after a failure
LinearSolve_Retry ==
    /\ pc = "linear_solve"
    /\ \E ok \in BOOLEAN, increment \in DxValues :
        /\ InRange(FAdd(x, increment))
        /\ solved' = ok
        /\ p_DX' = increment
        /\ diverged' = diverged
        /\ pc' = IF ok THEN "propagate" ELSE "linear_solve"
    /\ n_linear_solves' = n_linear_solves + 1
    /\ UNCHANGED <<config, l_linear_solver, error_message_already_printed, outputs,
                   error_reported, vectors, p_A, p_F, n_it, R_squared_norm,
                   dx_squared_norm, du_squared_norm, converged, last_call,
                   x_entry, v_entry, n_assemblies, n_rhs_assemblies>>

\* solve, lines 218-225: the linear solver is called once; a failure ends the loop.
LinearSolve ==
    /\ pc = "linear_solve"
    /\ \E ok \in BOOLEAN, increment \in DxValues :
        /\ InRange(FAdd(x, increment))
        /\ solved' = ok
        /\ p_DX' = increment
        /\ diverged' = IF ok THEN diverged ELSE TRUE
        /\ pc' = IF ok THEN "propagate" ELSE "after_loop"
    /\ n_linear_solves' = n_linear_solves + 1
    /\ UNCHANGED <<config, l_linear_solver, error_message_already_printed, outputs,
                   error_reported, vectors, p_A, p_F, n_it, R_squared_norm,
                   dx_squared_norm, du_squared_norm, converged, last_call,
                   x_entry, v_entry, n_assemblies, n_rhs_assemblies>>

\* solve, lines 227-230: propagate_position_increment.
Propagate ==
    /\ pc = "propagate"
    /\ x' = Norm(FAdd(x, p_DX))
    /\ v' = Norm(FAdd(v, p_DX))
    /\ dx' = p_DX
    /\ pc' = "update_force"
    /\ UNCHANGED <<config, l_linear_solver, error_message_already_printed, outputs,
                   error_reported, f, p_U, buffers, locals, last_call, observed>>

\* lines 232-244 without the test newton_iterations > 1 of line 233
UpdateForce_Always ==
    /\ pc = "update_force"
    /\ IF TRUE
       THEN \E force \in ForceValues :
               /\ f' = force /\ p_F' = force
               /\ R_squared_norm' = dot(force, force)
               /\ n_rhs_assemblies' = n_rhs_assemblies + 1
       ELSE UNCHANGED <<f, p_F, R_squared_norm, n_rhs_assemblies>>
    /\ pc' = "update_U"
    /\ UNCHANGED <<config, l_linear_solver, error_message_already_printed, outputs,
                   error_reported, x, v, dx, p_U, p_A, p_DX, n_it, dx_squared_norm,
                   du_squared_norm, converged, diverged, solved, last_call,
                   x_entry, v_entry, n_assemblies, n_linear_solves>>

\* solve, lines 232-244: with more than one Newton iteration, clear the right-hand
\* side, assemble it again and take its squared norm.
UpdateForce ==
    /\ pc = "update_force"
    /\ IF d_newton_iterations > 1
       THEN \E force \in ForceValues :
               /\ f' = force /\ p_F' = force
               /\ R_squared_norm' = dot(force, force)
               /\ n_rhs_assemblies' = n_rhs_assemblies + 1
       ELSE UNCHANGED <<f, p_F, R_squared_norm, n_rhs_assemblies>>
    /\ pc' = "update_U"
    /\ UNCHANGED <<config, l_linear_solver, error_message_already_printed, outputs,
                   error_reported, x, v, dx, p_U, p_A, p_DX, n_it, dx_squared_norm,
                   du_squared_norm, converged, diverged, solved, last_call,
                   x_entry, v_entry, n_assemblies, n_linear_solves>>

\* lines 246-254 going on to the divergence check, the recording of lines
\* 256-263 skipped
UpdateU_SkipsRecord ==
    /\ pc = "update_U"
    /\ p_U' = Norm(FAdd(p_U, dx))
    /\ dx_squared_norm' = dot(dx, dx)
    /\ du_squared_norm' = dot(Norm(FAdd(p_U, dx)), Norm(FAdd(p_U, dx)))
    /\ pc' = "check_divergence"
    /\ UNCHANGED <<config, l_linear_solver, error_message_already_printed, outputs,
                   error_reported, x, v, f, dx, buffers, n_it, R_squared_norm,
                   converged, diverged, solved, last_call, observed>>

\* lines 246-254 with U = dx for U += dx
UpdateU_Overwrites ==
    /\ pc = "update_U"
    /\ p_U' = dx
    /\ dx_squared_norm' = dot(dx, dx)
    /\ du_squared_norm' = dot(dx, dx)
    /\ pc' = "record"
    /\ UNCHANGED <<config, l_linear_solver, error_message_already_printed, outputs,
                   error_reported, x, v, f, dx, buffers, n_it, R_squared_norm,
                   converged, diverged, solved, last_call, observed>>

\* solve, lines 246-254: U += dx, dx.dx and U.U.
UpdateU ==
    /\ pc = "update_U"
    /\ p_U' = Norm(FAdd(p_U, dx))
    /\ dx_squared_norm' = dot(dx, dx)
    /\ du_squared_norm' = dot(Norm(FAdd(p_U, dx)), Norm(FAdd(p_U, dx)))
    /\ pc' = "record"
    /\ UNCHANGED <<config, l_linear_solver, error_message_already_printed, outputs,
                   error_reported, x, v, f, dx, buffers, n_it, R_squared_norm,
                   converged, diverged, solved, last_call, observed>>

\* lines 256-263 placed after the test of line 275: an iteration that is about
\* to stop the solve as diverged is not recorded
Record_AfterCheck ==
    /\ pc = "record"
    /\ IF DivergenceTest(R_squared_norm, dx_squared_norm, du_squared_norm)
       THEN UNCHANGED <<p_times, p_squared_residuals>>
       ELSE /\ p_times' = Append(p_times, 1)
            /\ p_squared_residuals' = Append(p_squared_residuals, R_squared_norm)
    /\ n_it' = U32Inc(n_it)
    /\ pc' = "check_divergence"
    /\ UNCHANGED <<config, l_linear_solver, error_message_already_printed,
                   d_converged, p_squared_initial_residual, timer_values,
                   reason, error_reported, vectors, buffers,
                   R_squared_norm, dx_squared_norm, du_squared_norm, converged,
                   diverged, solved, last_call, observed>>

\* solve, lines 256-263: record the time and the squared residual, count the iteration.
Record ==
    /\ pc = "record"
    /\ p_times' = Append(p_times, 1)
    /\ p_squared_residuals' = Append(p_squared_residuals, R_squared_norm)
    /\ n_it' = U32Inc(n_it)
    /\ pc' = "check_divergence"
    /\ UNCHANGED <<config, l_linear_solver, error_message_already_printed,
                   d_converged, p_squared_initial_residual, timer_values,
                   reason, error_reported, vectors, buffers,
                   R_squared_norm, dx_squared_norm, du_squared_norm, converged,
                   diverged, solved, last_call, observed>>

\* lines 275-291 without the break: the convergence checks still run
CheckDivergence_NoBreak ==
    /\ pc = "check_divergence"
    /\ IF DivergenceTest(R_squared_norm, dx_squared_norm, du_squared_norm)
       THEN diverged' = TRUE /\ reason' = "diverged"
       ELSE UNCHANGED <<diverged, reason>>
    /\ pc' = "check_convergence"
    /\ UNCHANGED <<config, l_linear_solver, error_message_already_printed,
                   d_converged, p_squared_residuals, p_times,
                   p_squared_initial_residual, timer_values,
                   error_reported, vectors, buffers, n_it, R_squared_norm,
                   dx_squared_norm, du_squared_norm, converged, solved,
                   last_call, observed>>

\* solve, lines 275-291: the divergence check.
CheckDivergence ==
    /\ pc = "check_divergence"
    /\ IF DivergenceTest(R_squared_norm, dx_squared_norm, du_squared_norm)
       THEN diverged' = TRUE /\ reason' = "diverged" /\ pc' = "after_loop"
       ELSE UNCHANGED <<diverged, reason>> /\ pc' = "check_convergence"
    /\ UNCHANGED <<config, l_linear_solver, error_message_already_printed,
                   d_converged, p_squared_residuals, p_times,
                   p_squared_initial_residual, timer_values,
                   error_reported, vectors, buffers, n_it, R_squared_norm,
                   dx_squared_norm, du_squared_norm, converged, solved,
                   last_call, observed>>

\* lines 293-308 with the residual criterion tested before the correction criterion
CheckConvergence_ResidualFirst ==
    /\ pc = "check_convergence"
    /\ IF ResidualTest(d_residual_tolerance_threshold, R_squared_norm,
                       p_squared_residuals)
       THEN converged' = TRUE /\ reason' = "residual" /\ pc' = "after_loop"
       ELSE IF CorrectionTest(d_correction_tolerance_threshold, dx_squared_norm,
                              du_squared_norm)
            THEN converged' = TRUE /\ reason' = "correction" /\ pc' = "after_loop"
            ELSE UNCHANGED <<converged, reason>> /\ pc' = "clear_dx"
    /\ UNCHANGED <<config, l_linear_solver, error_message_already_printed,
                   d_converged, p_squared_residuals, p_times,
                   p_squared_initial_residual, timer_values,
                   error_reported, vectors, buffers, n_it, R_squared_norm,
                   dx_squared_norm, du_squared_norm, diverged, solved,
                   last_call, observed>>

\* solve, lines 293-308: the correction criterion, then the residual criterion.
CheckConvergence ==
    /\ pc = "check_convergence"
    /\ IF CorrectionTest(d_correction_tolerance_threshold, dx_squared_norm,
                         du_squared_norm)
       THEN converged' = TRUE /\ reason' = "correction" /\ pc' = "after_loop"
       ELSE IF ResidualTest(d_residual_tolerance_threshold, R_squared_norm,
                            p_squared_residuals)
            THEN converged' = TRUE /\ reason' = "residual" /\ pc' = "after_loop"
            ELSE UNCHANGED <<converged, reason>> /\ pc' = "clear_dx"
    /\ UNCHANGED <<config, l_linear_solver, error_message_already_printed,
                   d_converged, p_squared_residuals, p_times,
                   p_squared_initial_residual, timer_values,
                   error_reported, vectors, buffers, n_it, R_squared_norm,
                   dx_squared_norm, du_squared_norm, diverged, solved,
                   last_call, observed>>

\* lines 310-312 without v_clear(dx_id)
ClearDx_Keeps ==
    /\ pc = "clear_dx"
    /\ dx' = dx
    /\ pc' = "loop"
    /\ UNCHANGED <<config, l_linear_solver, error_message_already_printed, outputs,
                   error_reported, x, v, f, p_U, buffers, locals, last_call, observed>>

\* solve, lines 310-312: clear dx and go round the loop.
ClearDx ==
    /\ pc = "clear_dx"
    /\ dx' = Zero
    /\ pc' = "loop"
    /\ UNCHANGED <<config, l_linear_solver, error_message_already_printed, outputs,
                   error_reported, x, v, f, p_U, buffers, locals, last_call, observed>>

\* solve, lines 314-325: decrement the counter, report the iteration limit, store
\* the converged flag and the timer values.
AfterLoop ==
    /\ pc = "after_loop"
    /\ n_it' = U32Dec(n_it)
    /\ reason' = IF IterationLimitTest(converged, diverged, U32Dec(n_it),
                                       d_newton_iterations)
                 THEN "max_iterations" ELSE reason
    /\ d_converged' = converged
    /\ timer_values' = <<IF converged THEN 1 ELSE 0, U32Inc(U32Dec(n_it))>>
    /\ pc' = "exit"
    /\ UNCHANGED <<config, l_linear_solver, error_message_already_printed,
                   p_squared_residuals, p_times, p_squared_initial_residual,
                   error_reported, vectors, buffers, R_squared_norm,
                   dx_squared_norm, du_squared_norm, converged, diverged, solved,
                   last_call, observed>>

\* solve returns: its locals are gone.
Return ==
    /\ pc = "exit"
    /\ n_it' = U32(0)
    /\ R_squared_norm' = Zero /\ dx_squared_norm' = Zero /\ du_squared_norm' = Zero
    /\ converged' = FALSE /\ diverged' = FALSE /\ solved' = FALSE
    /\ pc' = "done"
    /\ UNCHANGED <<config, l_linear_solver, error_message_already_printed, outputs,
                   error_reported, vectors, buffers, last_call, observed>>

Next ==
    \/ SetLinearSolver
    \/ SolveEnter
    \/ SolveWithoutLinearSolver
    \/ SolveBegin
    \/ FirstResidual
    \/ LoopTest
    \/ AssembleMatrix
    \/ LinearSolve
    \/ Propagate
    \/ UpdateForce
    \/ UpdateU
    \/ Record
    \/ CheckDivergence
    \/ CheckConvergence
    \/ ClearDx
    \/ AfterLoop
    \/ Return

Spec == Init /\ [][Next]_vars

----------------------------------------------------------------------------
\* Properties.

Positive(tol) == FGt(tol, Zero)
Squared(tol) == FMul(tol, tol)
SolveCall == SolveEnter \/ SolveWithoutLinearSolver \/ SolveBegin
\* the positions of a solve after the test of the initial residual
InLoop == {"loop", "assemble", "linear_solve", "propagate", "update_force",
           "update_U", "record", "check_divergence", "check_convergence",
           "clear_dx", "after_loop"}
\* the initial residual of the current (or last) solve is known
ResidualKnown == pc \in InLoop \/ pc = "exit" \/ (pc = "done" /\ last_call = "ran")

\* C1: a solve call made while no compatible linear solver is attached returns
\* at once and leaves force, dx, U, position, velocity, both histories,
\* squared_initial_residual and the converged output as they were.
C1_NoSolverCallChangesNothing ==
    [][(l_linear_solver /= "caribou" /\ SolveCall)
        => /\ pc' \in {"entered", "done"}
           /\ UNCHANGED <<f, dx, p_U, x, v, p_squared_residuals, p_times,
                          p_squared_initial_residual, d_converged>>]_vars

\* a call without solver returned after an earlier solve had recorded an
\* iteration, moved the state and converged
C1_Witness ==
    /\ pc = "done" /\ last_call = "noop"
    /\ Len(p_squared_residuals) > 0 /\ x /= Zero /\ d_converged

\* C2: a call without a valid linear solver reports the error exactly when it
\* is the first call of a run of such calls (the call before it, if any, ran
\* with a valid solver); a call with a valid solver reports nothing.
C2_ErrorOncePerRun ==
    [][(SolveWithoutLinearSolver \/ SolveBegin)
        => (error_reported' <=> (l_linear_solver /= "caribou" /\ last_call /= "noop"))]_vars

\* the first misconfigured call after a solve that ran reported the error again
C2_Witness ==
    /\ pc = "done" /\ last_call = "noop" /\ error_reported
    /\ Len(timer_values) = 2

\* C3: at the exit of a solve that ran, exactly one of converged, diverged and
\* iteration-limit-reached (neither, with newton_iterations completed iterations)
\* holds, and the code's own limit test agrees.
C3_ExactlyOneOutcome ==
    pc = "exit" =>
        LET limit == ~converged /\ ~diverged
                     /\ Len(p_squared_residuals) = d_newton_iterations
        IN /\ ~(converged /\ diverged)
           /\ (converged \/ diverged \/ limit)
           /\ ~(limit /\ (converged \/ diverged))
           /\ d_converged = converged
           /\ (reason = "max_iterations") <=> limit

\* a solve left through the iteration limit after two iterations
C3_Witness ==
    /\ pc = "exit" /\ reason = "max_iterations" /\ d_newton_iterations = 2
    /\ Len(p_squared_residuals) = 2

\* C4: during a solve and at its exit both histories have as many entries as
\* iterations were completed, and never more than newton_iterations.
C4_TelemetryLengths ==
    /\ Len(p_squared_residuals) = Len(p_times)
    /\ Len(p_squared_residuals) <= d_newton_iterations
    /\ (pc \in InLoop \/ pc = "first_residual") => n_it = U32(Len(p_squared_residuals))
    /\ pc = "exit" => timer_values[2] = U32(Len(p_squared_residuals))

\* the second iteration of a solve has just been recorded
C4_Witness ==
    /\ pc = "check_divergence" /\ n_it = U32(2) /\ Len(p_times) = 2

\* C5: when the residual tolerance is positive and the initial squared residual
\* satisfies it, the solve is marked converged with no iteration: no tangent
\* assembly, no linear solve, position and velocity as at entry, empty histories.
C5_ShortCircuit ==
    (/\ ResidualKnown
     /\ Positive(d_residual_tolerance_threshold)
     /\ FLe(p_squared_initial_residual, d_residual_tolerance_threshold))
    => /\ pc \in {"loop", "after_loop", "exit", "done"}
       /\ pc \in {"loop", "after_loop"} => converged
       /\ pc \in {"exit", "done"} => d_converged
       /\ n_assemblies = 0 /\ n_linear_solves = 0
       /\ x = x_entry /\ v = v_entry
       /\ p_squared_residuals = <<>> /\ p_times = <<>>

\* a solve with newton_iterations > 0, entered at a position other than 0,
\* left on the initial test
C5_Witness ==
    /\ pc = "exit" /\ reason = "equilibrium" /\ d_newton_iterations > 0
    /\ x_entry /= Zero /\ d_converged

\* C6: every tolerance comparison is of a squared norm against a squared
\* tolerance: the initial test is R0^2 <= tol_r^2, the correction criterion
\* dx^2 < tol_c^2 U^2, the residual criterion R^2 < tol_r^2 times the reference.
C6_SquaredComparisons ==
    /\ (pc = "loop" /\ n_it = U32(0))
        => (converged <=> (/\ Positive(d_residual_tolerance_threshold)
                           /\ FLe(p_squared_initial_residual,
                                  Squared(d_residual_tolerance_threshold))))
    /\ (pc \in {"after_loop", "exit"} /\ reason = "correction")
        => FLt(dx_squared_norm,
               FMul(Squared(d_correction_tolerance_threshold), du_squared_norm))
    /\ (pc \in {"after_loop", "exit"} /\ reason = "residual")
        => FLt(p_squared_residuals[Len(p_squared_residuals)],
               FMul(Squared(d_residual_tolerance_threshold), p_squared_residuals[1]))

\* C7: in an iteration where neither the divergence check nor the correction
\* criterion fired, the residual criterion marks converged exactly when
\* tol_r > 0 and R^2 < tol_r^2 R0^2, R0^2 being squared_initial_residual.
C7_ResidualAgainstInitial ==
    (pc = "clear_dx" \/ (pc = "after_loop" /\ reason = "residual"))
    => ((reason = "residual")
        <=> (/\ Positive(d_residual_tolerance_threshold)
             /\ FLt(R_squared_norm, FMul(Squared(d_residual_tolerance_threshold),
                                         p_squared_initial_residual))))

\* C8: with residual_tolerance_threshold <= 0 neither the initial test nor the
\* residual criterion marks converged, whatever the residuals.
C8_DisabledResidualNeverFires ==
    ~Positive(d_residual_tolerance_threshold)
    => /\ reason \notin {"equilibrium", "residual"}
       /\ converged => reason = "correction"
       /\ (pc \in {"exit", "done"} /\ d_converged) => reason = "correction"

\* with the residual tolerance disabled and R0^2 = 0, a second iteration ended
\* on a zero residual without converging
C8_Witness ==
    /\ ~Positive(d_residual_tolerance_threshold)
    /\ p_squared_initial_residual = Zero
    /\ pc = "clear_dx" /\ n_it = U32(2) /\ R_squared_norm = Zero
    /\ p_squared_residuals[1] /= Zero

\* C9: with both tolerances disabled no solve ends converged; with
\* newton_iterations = 1, a non-zero load and a linear solve that succeeds with
\* a non-zero increment, one iteration is performed and the solve leaves through
\* the iteration limit.
C9_BothDisabled ==
    (~Positive(d_correction_tolerance_threshold)
     /\ ~Positive(d_residual_tolerance_threshold))
    => /\ ~converged /\ ~d_converged
       /\ (/\ pc = "exit" /\ d_newton_iterations = 1
           /\ ~isnan(p_F) /\ p_F /= Zero
           /\ solved /\ ~isnan(p_DX) /\ p_DX /= Zero)
          => /\ Len(p_squared_residuals) = 1 /\ Len(p_times) = 1
             /\ n_linear_solves = 1 /\ n_assemblies = 1
             /\ ~diverged /\ reason = "max_iterations"

\* the single iteration of such a solve was done and the limit reported
C9_Witness ==
    /\ pc = "exit" /\ d_newton_iterations = 1
    /\ d_correction_tolerance_threshold = R(-1)
    /\ d_residual_tolerance_threshold = R(-1)
    /\ p_F /= Zero /\ ~isnan(p_F) /\ solved /\ p_DX /= Zero /\ ~isnan(p_DX)
    /\ reason = "max_iterations" /\ Len(p_squared_residuals) = 1

FarFromEquilibrium ==
    ~(Positive(d_residual_tolerance_threshold)
      /\ FLe(p_squared_initial_residual, d_residual_tolerance_threshold))

\* C10 as stated: with newton_iterations = 1, every solve started far from
\* equilibrium records exactly one iteration and starts no second one.
C10_AlwaysOneIteration ==
    (pc = "exit" /\ d_newton_iterations = 1 /\ FarFromEquilibrium)
    => /\ Len(p_squared_residuals) = 1 /\ Len(p_times) = 1
       /\ n_assemblies = 1 /\ n_linear_solves = 1

\* C10: with newton_iterations = 1, a solve started far from equilibrium starts
\* exactly one iteration; it records that iteration when its linear solve
\* succeeded and records nothing when the linear solve failed.
C10_OneIterationStarted ==
    (d_newton_iterations = 1 /\ FarFromEquilibrium)
    => /\ (pc \in InLoop \/ pc = "exit") => (n_assemblies <= 1 /\ n_linear_solves <= 1)
       /\ pc = "exit"
          => /\ n_assemblies = 1 /\ n_linear_solves = 1
             /\ solved => (Len(p_squared_residuals) = 1 /\ Len(p_times) = 1)
             /\ ~solved => (Len(p_squared_residuals) = 0 /\ Len(p_times) = 0
                            /\ diverged)

\* a solve far from equilibrium recorded its single iteration
C10_Witness ==
    /\ pc = "exit" /\ d_newton_iterations = 1 /\ FarFromEquilibrium
    /\ solved /\ Len(p_squared_residuals) = 1
    /\ p_squared_initial_residual = R(4)

----------------------------------------------------------------------------
\* The solver in a scene of one linear spring: the residual is a function of the
\* position and of the load alone, and the linear solver is exact.

MaxStiffness == 2  \* the spring stiffness ranges over 1..MaxStiffness

\* the assembled right-hand side at position p: load minus internal force
SpringForce(p) == IF isnan(p) THEN NaN ELSE R(stiffness * (target - p[1]))

\* the solution of stiffness * increment = force
SpringIncrement(force) == IF isnan(force) THEN NaN ELSE R(force[1] \div stiffness)

InitLinear ==
    /\ InitSolver
    /\ l_linear_solver = "caribou"
    /\ stiffness \in 1..MaxStiffness
    /\ target \in (0 - MaxPos)..MaxPos
    /\ prev_outputs = <<>>
    /\ context = <<>> /\ l_index = 0
    /\ init_report = <<>>
    /\ other_calls = <<>> /\ other_reports = <<>>
    /\ TopologyIdle

\* solve, lines 188-202, the force vector assembled from the spring
FirstResidualLinear ==
    /\ pc = "first_residual"
    /\ f' = SpringForce(x) /\ p_F' = SpringForce(x)
    /\ R_squared_norm' = dot(SpringForce(x), SpringForce(x))
    /\ p_squared_initial_residual' = dot(SpringForce(x), SpringForce(x))
    /\ converged' = InitialResidualTest(d_residual_tolerance_threshold,
                                        dot(SpringForce(x), SpringForce(x)))
    /\ reason' = IF InitialResidualTest(d_residual_tolerance_threshold,
                                        dot(SpringForce(x), SpringForce(x)))
                 THEN "equilibrium" ELSE reason
    /\ n_rhs_assemblies' = n_rhs_assemblies + 1
    /\ pc' = "loop"
    /\ UNCHANGED <<config, l_linear_solver, error_message_already_printed,
                   d_converged, p_squared_residuals, p_times, timer_values,
                   error_reported, x, v, dx, p_U, p_A, p_DX,
                   n_it, dx_squared_norm, du_squared_norm, diverged, solved,
                   last_call, x_entry, v_entry, n_assemblies, n_linear_solves>>

\* solve, lines 218-225, the linear solver solving the spring exactly
LinearSolveLinear ==
    /\ pc = "linear_solve"
    /\ solved' = TRUE
    /\ p_DX' = SpringIncrement(p_F)
    /\ pc' = "propagate"
    /\ n_linear_solves' = n_linear_solves + 1
    /\ UNCHANGED <<config, l_linear_solver, error_message_already_printed, outputs,
                   error_reported, vectors, p_A, p_F, n_it, R_squared_norm,
                   dx_squared_norm, du_squared_norm, converged, diverged, last_call,
                   x_entry, v_entry, n_assemblies, n_rhs_assemblies>>

\* lines 232-244 without p_F->clear() of line 236: the assembly adds to the
\* right-hand side of the iteration before
UpdateForceLinear_NoClear ==
    /\ pc = "update_force"
    /\ IF d_newton_iterations > 1
       THEN /\ f' = SpringForce(x) /\ p_F' = FAdd(p_F, SpringForce(x))
            /\ R_squared_norm' = dot(FAdd(p_F, SpringForce(x)),
                                     FAdd(p_F, SpringForce(x)))
            /\ n_rhs_assemblies' = n_rhs_assemblies + 1
       ELSE UNCHANGED <<f, p_F, R_squared_norm, n_rhs_assemblies>>
    /\ pc' = "update_U"
    /\ UNCHANGED <<config, l_linear_solver, error_message_already_printed, outputs,
                   error_reported, x, v, dx, p_U, p_A, p_DX, n_it, dx_squared_norm,
                   du_squared_norm, converged, diverged, solved, last_call,
                   x_entry, v_entry, n_assemblies, n_linear_solves>>

\* solve, lines 232-244, the force vector assembled from the spring
UpdateForceLinear ==
    /\ pc = "update_force"
    /\ IF d_newton_iterations > 1
       THEN /\ f' = SpringForce(x) /\ p_F' = SpringForce(x)
            /\ R_squared_norm' = dot(SpringForce(x), SpringForce(x))
            /\ n_rhs_assemblies' = n_rhs_assemblies + 1
       ELSE UNCHANGED <<f, p_F, R_squared_norm, n_rhs_assemblies>>
    /\ pc' = "update_U"
    /\ UNCHANGED <<config, l_linear_solver, error_message_already_printed, outputs,
                   error_reported, x, v, dx, p_U, p_A, p_DX, n_it, dx_squared_norm,
                   du_squared_norm, converged, diverged, solved, last_call,
                   x_entry, v_entry, n_assemblies, n_linear_solves>>

\* The host reads the outputs of the solve that returned.
ReadOutputs ==
    /\ pc = "done"
    /\ pc' = "idle"
    /\ prev_outputs' = <<x_entry, target, d_converged, Len(p_squared_residuals)>>
    /\ UNCHANGED <<d_newton_iterations, d_correction_tolerance_threshold,
                   d_residual_tolerance_threshold, stiffness, target, context,
                   l_index, init_report, other_calls, other_reports, topology,
                   l_linear_solver,
                   error_message_already_printed, outputs, error_reported,
                   vectors, buffers, locals, last_call, observed>>

\* The host changes the external load before a solve call, once it has read the
\* outputs of the solve before.
ChangeLoad ==
    /\ pc = "idle"
    /\ \E t \in (0 - MaxPos)..MaxPos : t /= target /\ target' = t
    /\ UNCHANGED <<d_newton_iterations, d_correction_tolerance_threshold,
                   d_residual_tolerance_threshold, stiffness, prev_outputs, context,
                   l_index, init_report, other_calls, other_reports, topology,
                   l_linear_solver,
                   error_message_already_printed, outputs, error_reported,
                   vectors, buffers, locals, pc, last_call, observed>>

NextLinear ==
    \/ ChangeLoad
    \/ SolveEnter
    \/ SolveBegin
    \/ FirstResidualLinear
    \/ LoopTest
    \/ AssembleMatrix
    \/ LinearSolveLinear
    \/ Propagate
    \/ UpdateForceLinear
    \/ UpdateU
    \/ Record
    \/ CheckDivergence
    \/ CheckConvergence
    \/ ClearDx
    \/ AfterLoop
    \/ Return
    \/ ReadOutputs

SpecLinear == InitLinear /\ [][NextLinear]_vars

\* the position p is an equilibrium within the residual tolerance
AtEquilibrium(p) ==
    /\ Positive(d_residual_tolerance_threshold)
    /\ FLe(dot(SpringForce(p), SpringForce(p)), d_residual_tolerance_threshold)

----------------------------------------------------------------------------
\* every linear solve of this solve call reported failure (a solve stops at the
\* first failure, so a failing solver is called at most once)
AllLinearSolvesFailed == ~solved /\ n_linear_solves <= 1

\* the solve went through the failed linear solve and mutated nothing after it
FailedFirstIteration ==
    /\ diverged /\ ~converged
    /\ n_assemblies = 1 /\ n_linear_solves = 1
    /\ x = x_entry /\ v = v_entry /\ dx = Zero /\ p_U = Zero
    /\ Len(p_squared_residuals) = 0 /\ Len(p_times) = 0

\* C12 as stated: with a linear solver that fails on every call, every solve
\* call ends diverged in its first iteration, the matrix assembled once and
\* nothing else mutated, converged = false.
C12_EverySolveDiverges ==
    (pc = "exit" /\ AllLinearSolvesFailed) => (FailedFirstIteration /\ ~d_converged)

\* C12: with a linear solver that fails on every call, a solve that starts an
\* iteration (newton_iterations >= 1 and the initial residual not within the
\* tolerance) ends diverged in that first iteration, the matrix assembled once
\* and nothing else mutated, converged = false; a solve that starts no
\* iteration never calls the linear solver and does not end diverged.
C12_StartedSolveDiverges ==
    (pc = "exit" /\ AllLinearSolvesFailed) =>
        IF d_newton_iterations >= 1
           /\ ~InitialResidualTest(d_residual_tolerance_threshold,
                                   p_squared_initial_residual)
        THEN FailedFirstIteration /\ ~d_converged
        ELSE /\ n_linear_solves = 0 /\ n_assemblies = 0 /\ ~diverged
             /\ x = x_entry /\ v = v_entry

\* a solve ended by the failure of its first linear solve, the solver having
\* written an increment into its solution buffer
C12_Witness ==
    /\ pc = "exit" /\ AllLinearSolvesFailed
    /\ n_linear_solves = 1 /\ diverged /\ ~d_converged
    /\ p_DX /= Zero /\ x = x_entry /\ Len(p_squared_residuals) = 0

----------------------------------------------------------------------------
\* C13 as stated: in the spring scene, with both tolerances positive and an
\* initial residual that does not short-circuit, a solve that may iterate ends
\* converged after exactly one completed iteration, and the squared residual
\* recorded for that iteration is the residual after the step, which is zero.
C13_ConvergedInOneIteration ==
    (/\ pc = "exit"
     /\ Positive(d_correction_tolerance_threshold)
     /\ Positive(d_residual_tolerance_threshold)
     /\ d_newton_iterations >= 1
     /\ ~AtEquilibrium(x_entry))
        => /\ d_converged
           /\ Len(p_squared_residuals) = 1
           /\ p_squared_residuals[1] = Zero

----------------------------------------------------------------------------
\* the norms of the iteration last recorded are in the locals
IterationRecorded == solved /\ Len(p_squared_residuals) >= 1

\* the iteration last recorded has a NaN norm or a total displacement below the floor
Diverging ==
    \/ isnan(R_squared_norm)
    \/ isnan(dx_squared_norm)
    \/ FLt(du_squared_norm, R(EPSILON))

\* the residual criterion is met by the iteration last recorded
ResidualMet ==
    /\ Positive(d_residual_tolerance_threshold)
    /\ FLt(R_squared_norm, FMul(Squared(d_residual_tolerance_threshold),
                                p_squared_residuals[1]))

\* the correction criterion is met by the iteration last recorded
CorrectionMet ==
    /\ Positive(d_correction_tolerance_threshold)
    /\ FLt(dx_squared_norm, FMul(Squared(d_correction_tolerance_threshold),
                                 du_squared_norm))

\* C14: the divergence check comes before the convergence checks: no
\* convergence check is reached by an iteration with a NaN squared residual, a
\* NaN squared increment or a squared total displacement below EPSILON, and
\* such an iteration ends the solve diverged with converged = false, whatever
\* the criteria say.
C14_DivergenceFirst ==
    /\ pc \in {"check_convergence", "clear_dx"} => ~Diverging
    /\ (pc \in {"after_loop", "exit"} /\ IterationRecorded /\ Diverging)
          => (diverged /\ ~converged /\ reason = "diverged")
    /\ (pc = "exit" /\ IterationRecorded /\ Diverging) => ~d_converged

\* a solve ended diverged on a zero total displacement with a zero residual,
\* the residual criterion being met
C14_Witness ==
    /\ pc = "exit" /\ IterationRecorded
    /\ R_squared_norm = Zero /\ du_squared_norm = Zero
    /\ ResidualMet
    /\ diverged /\ ~d_converged

----------------------------------------------------------------------------
\* C15: the correction criterion is tested before the residual criterion: a
\* recorded iteration that did not diverge ends the solve on the correction
\* criterion exactly when correction_tolerance_threshold > 0 and
\* dx.dx < tol_c^2 * U.U, also when the residual criterion is met as well; it
\* ends on the residual criterion only when the correction criterion is not
\* met; the loop goes on only when neither is met.
C15_CorrectionFirst ==
    /\ pc = "clear_dx" => (~CorrectionMet /\ ~ResidualMet)
    /\ (pc \in {"after_loop", "exit"} /\ IterationRecorded /\ ~diverged)
          => /\ (reason = "correction") <=> CorrectionMet
             /\ (reason = "residual") <=> (~CorrectionMet /\ ResidualMet)
             /\ reason \in {"correction", "residual"} => converged

\* a solve ended on the correction criterion while the residual criterion was
\* met too
C15_Witness ==
    /\ pc = "exit" /\ IterationRecorded /\ ~diverged
    /\ CorrectionMet /\ ResidualMet
    /\ reason = "correction" /\ d_converged

----------------------------------------------------------------------------
\* the steps of a running solve call; each returns once the assembly or linear
\* solve it calls has returned
SolveStep ==
    \/ SolveWithoutLinearSolver \/ SolveBegin \/ FirstResidual \/ LoopTest
    \/ AssembleMatrix \/ LinearSolve \/ Propagate \/ UpdateForce \/ UpdateU
    \/ Record \/ CheckDivergence \/ CheckConvergence \/ ClearDx \/ AfterLoop
    \/ Return

\* the host calls solve once
SolveOnce == pc = "idle" /\ SolveEnter

NextCall ==
    \/ SolveOnce
    \/ SolveWithoutLinearSolver
    \/ SolveBegin
    \/ FirstResidual
    \/ LoopTest
    \/ AssembleMatrix
    \/ LinearSolve
    \/ Propagate
    \/ UpdateForce
    \/ UpdateU
    \/ Record
    \/ CheckDivergence
    \/ CheckConvergence
    \/ ClearDx
    \/ AfterLoop
    \/ Return

\* one solve call on the solver as constructed, which keeps running once it has
\* been entered
SpecCall == Init /\ [][NextCall]_vars /\ WF_vars(SolveStep)

\* C16: every solve call that is entered returns, and on the way it starts at
\* most newton_iterations iterations (one matrix assembly and at most one
\* linear solve per started iteration), whatever the residuals and increments.
C16_Terminates ==
    /\ (pc \notin Between) ~> (pc = "done")
    /\ [](/\ n_assemblies <= d_newton_iterations
          /\ n_linear_solves <= n_assemblies
          /\ Len(p_squared_residuals) <= n_linear_solves)

\* a solve that ran MaxNewton iterations, up to the limit, and returned
C16_Witness ==
    /\ pc = "done" /\ last_call = "ran"
    /\ d_newton_iterations = MaxNewton
    /\ n_assemblies = d_newton_iterations
    /\ Len(p_squared_residuals) = d_newton_iterations

----------------------------------------------------------------------------
\* the last linear solve of the running solve call reported failure
LinearSolveFailed == n_linear_solves >= 1 /\ ~solved

\* C17: within one solve call the linear solver is invoked once per started
\* iteration; once it has failed the loop is left and it is not invoked again;
\* when the loop is left, the invocations number the completed iterations,
\* plus one when the call ended on a linear-solve failure.
C17_NoRetry ==
    (pc \in InLoop \/ pc = "exit") =>
        /\ n_linear_solves = IF pc = "linear_solve" THEN n_assemblies - 1
                             ELSE n_assemblies
        /\ LinearSolveFailed => (pc \in {"after_loop", "exit"} /\ diverged)
        /\ pc \in {"after_loop", "exit"}
              => n_linear_solves = Len(p_squared_residuals)
                                   + (IF LinearSolveFailed THEN 1 ELSE 0)

\* a solve ended by a failed linear solve in its second iteration
C17_Witness ==
    /\ pc = "exit" /\ LinearSolveFailed
    /\ n_linear_solves = 2 /\ Len(p_squared_residuals) = 1

----------------------------------------------------------------------------
\* NewtonRaphsonSolver::init in a context node holding LinearSolver objects; the
\* solver is constructed with its default options and drives the linear spring.

MaxContext == 3    \* the node holds 0..MaxContext LinearSolver objects

SolverKinds == {"sofa", "caribou"}
Contexts == UNION {[1..n -> SolverKinds] : n \in 0..MaxContext}

\* lines 336-343 without the dynamic_cast: every solver found counts as compatible
caribou_linear_solvers_NoCast(solvers) == DOMAIN solvers

\* lines 336-343: the solvers of the node the dynamic_cast accepts
caribou_linear_solvers(solvers) == {i \in DOMAIN solvers : solvers[i] = "caribou"}

\* lines 336-343: the solvers of the node the dynamic_cast refuses
sofa_linear_solvers(solvers) == {i \in DOMAIN solvers : solvers[i] /= "caribou"}

\* lines 364 and 370 taking the last solver found
Front_Last(found) == CHOOSE i \in found : \A j \in found : j <= i

\* lines 364 and 370: caribou_linear_solvers[0], the first solver found
Front(found) == CHOOSE i \in found : \A j \in found : i <= j

InitScene ==
    /\ InitSolver
    /\ d_newton_iterations = 1
    /\ d_correction_tolerance_threshold = R(1)
    /\ d_residual_tolerance_threshold = R(1)
    /\ stiffness \in 1..MaxStiffness
    /\ target \in (0 - MaxPos)..MaxPos
    /\ prev_outputs = <<>>
    /\ context \in Contexts
    /\ l_index = 0
    /\ init_report = <<>>
    /\ other_calls = <<>> /\ other_reports = <<>>
    /\ TopologyIdle

\* NewtonRaphsonSolver::init, lines 328-377
init ==
    /\ pc \in Between
    /\ pc' = "idle"
    /\ IF ~has_valid_linear_solver
       THEN IF caribou_linear_solvers(context) = {}
            THEN /\ init_report' = <<IF sofa_linear_solvers(context) = {}
                                     THEN "error: no linear solver"
                                     ELSE "error: none compatible",
                                     l_linear_solver>>
                 /\ UNCHANGED <<l_linear_solver, l_index>>
            ELSE /\ l_linear_solver' = context[Front(caribou_linear_solvers(context))]
                 /\ l_index' = Front(caribou_linear_solvers(context))
                 /\ init_report' = <<IF Cardinality(caribou_linear_solvers(context)) = 1
                                     THEN "info" ELSE "warning",
                                     l_linear_solver>>
       ELSE /\ init_report' = <<"none", l_linear_solver>>
            /\ UNCHANGED <<l_linear_solver, l_index>>
    /\ UNCHANGED <<d_newton_iterations, d_correction_tolerance_threshold,
                   d_residual_tolerance_threshold, stiffness, target, prev_outputs,
                   context, other_calls, other_reports, topology,
                   error_message_already_printed, outputs, error_reported,
                   vectors, buffers, locals, last_call, observed>>

NextScene ==
    \/ init
    \/ SolveEnter
    \/ SolveWithoutLinearSolver
    \/ SolveBegin
    \/ FirstResidualLinear
    \/ LoopTest
    \/ AssembleMatrix
    \/ LinearSolveLinear
    \/ Propagate
    \/ UpdateForceLinear
    \/ UpdateU
    \/ Record
    \/ CheckDivergence
    \/ CheckConvergence
    \/ ClearDx
    \/ AfterLoop
    \/ Return

SpecScene == InitScene /\ [][NextScene]_vars

\* init has run, and found the link not valid
InitRanWithoutLink == Len(init_report) = 2 /\ init_report[2] /= "caribou"
\* the compatible linear solvers of the node
Compatible == {i \in DOMAIN context : context[i] = "caribou"}
InitErrors == {"error: no linear solver", "error: none compatible"}

\* C18 as stated: init run without a valid link in a node holding more than one
\* compatible linear solver reports an error and attaches none, and the solve
\* calls after it are no-ops.
C18_AmbiguousFails ==
    (InitRanWithoutLink /\ Cardinality(Compatible) > 1)
        => /\ init_report[1] \in InitErrors
           /\ ~has_valid_linear_solver
           /\ (pc = "done" => last_call = "noop")

\* C18: init run without a valid link in a node holding more than one
\* compatible linear solver attaches the first of them and reports a warning,
\* no error, and the solve calls after it run.
C18_AmbiguousTakesFirst ==
    (InitRanWithoutLink /\ Cardinality(Compatible) > 1)
        => /\ init_report[1] = "warning"
           /\ has_valid_linear_solver
           /\ l_index \in Compatible /\ \A i \in Compatible : l_index <= i
           /\ (pc = "done" => last_call = "ran")

\* a solve that ran after init chose between two compatible solvers, the first
\* solver of the node being an incompatible one
C18_Witness ==
    /\ InitRanWithoutLink /\ Cardinality(Compatible) > 1
    /\ context[1] = "sofa" /\ l_index = 2
    /\ pc = "done" /\ last_call = "ran"

----------------------------------------------------------------------------
\* C19: init run without a valid link attaches the compatible linear solver of
\* the node when there is exactly one; when there is none it reports an error,
\* leaves the link as it was and the solve calls after it are no-ops; it never
\* attaches an incompatible solver. init run with a valid link changes nothing
\* of the solver.
C19_InitAttaches ==
    /\ [](/\ (InitRanWithoutLink /\ Cardinality(Compatible) = 1)
                => /\ has_valid_linear_solver
                   /\ l_index \in Compatible
                   /\ init_report[1] = "info"
                   /\ (pc = "done" => last_call = "ran")
          /\ (InitRanWithoutLink /\ Compatible = {})
                => /\ init_report[1] \in InitErrors
                   /\ l_linear_solver = init_report[2]
                   /\ l_index = 0
                   /\ (pc = "done" => last_call = "noop")
          /\ l_index /= 0 => context[l_index] = "caribou"
          /\ (Len(init_report) = 2 /\ l_linear_solver /= init_report[2])
                => l_linear_solver = "caribou")
    /\ [][(init /\ l_linear_solver = "caribou")
             => UNCHANGED <<l_linear_solver, l_index, d_newton_iterations,
                            d_correction_tolerance_threshold,
                            d_residual_tolerance_threshold, outputs, vectors,
                            error_message_already_printed>>]_vars

\* a solve that ran after init attached the one compatible solver of a node
\* that holds an incompatible one as well
C19_Witness ==
    /\ InitRanWithoutLink /\ Cardinality(Compatible) = 1
    /\ context[1] = "sofa" /\ l_index = 2
    /\ pc = "done" /\ last_call = "ran"

----------------------------------------------------------------------------
\* C20 as stated: when a solve call has returned, the converged output tells
\* whether that call converged: it is false after a call that returned early
\* for want of a compatible linear solver, false after a call ended by a failed
\* linear solve, and otherwise the converged flag of the call.
C20_ConvergedOfLastCall ==
    /\ (pc = "done" /\ last_call = "noop") => ~d_converged
    /\ (pc = "exit" /\ LinearSolveFailed) => ~d_converged
    /\ pc = "exit" => (d_converged <=> converged)

----------------------------------------------------------------------------
\* Several solver instances in one process. The solver of the variables above
\* has a compatible linear solver; the other instances have none, so that a
\* solve call on one of them is lines 51-62 alone. The flag of line 52 is a
\* function-local static: all instances share error_message_already_printed.

MaxCalls == 2      \* solve is called at most MaxCalls times on each other instance

Others == {"A", "A2"}

\* the linear_solver link of the other instances: unset, or an incompatible solver
OtherLink(i) == IF i = "A" THEN "null" ELSE "sofa"

\* has_valid_linear_solver on another instance
other_has_valid_linear_solver(i) == OtherLink(i) /= "null" /\ OtherLink(i) = "caribou"

InitInstances ==
    /\ InitSolver
    /\ d_newton_iterations = 1
    /\ d_correction_tolerance_threshold = R(1)
    /\ d_residual_tolerance_threshold = R(1)
    /\ l_linear_solver = "caribou"
    /\ stiffness \in 1..MaxStiffness
    /\ target \in (0 - MaxPos)..MaxPos
    /\ prev_outputs = <<>>
    /\ context = <<>> /\ l_index = 0
    /\ init_report = <<>>
    /\ other_calls = [i \in Others |-> 0]
    /\ other_reports = [i \in Others |-> 0]
    /\ TopologyIdle

\* solve, lines 46-62, called on the other instance i between two solve calls
\* of this one
OtherSolve(i) ==
    /\ pc \in Between
    /\ other_calls[i] < MaxCalls
    /\ ~other_has_valid_linear_solver(i)
    /\ other_calls' = [other_calls EXCEPT ![i] = @ + 1]
    /\ other_reports' =
          [other_reports EXCEPT
              ![i] = @ + (IF ShouldReport(error_message_already_printed)
                          THEN 1 ELSE 0)]
    /\ error_message_already_printed' = TRUE
    /\ UNCHANGED <<d_newton_iterations, d_correction_tolerance_threshold,
                   d_residual_tolerance_threshold, stiffness, target, prev_outputs,
                   context, l_index, init_report, topology, l_linear_solver,
                   outputs, error_reported, vectors, buffers, locals, pc,
                   last_call, observed>>

NextInstances ==
    \/ \E i \in Others : OtherSolve(i)
    \/ SolveEnter
    \/ SolveBegin
    \/ FirstResidualLinear
    \/ LoopTest
    \/ AssembleMatrix
    \/ LinearSolveLinear
    \/ Propagate
    \/ UpdateForceLinear
    \/ UpdateU
    \/ Record
    \/ CheckDivergence
    \/ CheckConvergence
    \/ ClearDx
    \/ AfterLoop
    \/ Return

SpecInstances == InitInstances /\ [][NextInstances]_vars

\* C21 as stated: whatever the interleaving of the solve calls of the
\* instances, a misconfigured instance on which solve has been called has
\* reported its configuration error exactly once: not again after a solve of
\* the well-configured instance, and also when another misconfigured instance
\* reported before it.
C21_InstancesIndependent ==
    \A i \in Others : other_calls[i] >= 1 => other_reports[i] = 1

----------------------------------------------------------------------------
\* the solve has taken its initial residual and started no iteration yet
LoopEntry == pc = "loop" /\ n_assemblies = 0

\* C22: a solve that runs enters its loop with both histories empty and
\* squared_initial_residual the squared norm of the force it has just
\* assembled; up to its exit squared_initial_residual stays, and the histories
\* only grow, by one entry at their end for each recorded iteration of this
\* call, the squared residual of that iteration; at the exit they hold one
\* entry per completed iteration of this call.
C22_HistoriesOfThisCall ==
    /\ [](/\ LoopEntry => /\ p_squared_residuals = <<>> /\ p_times = <<>>
                          /\ p_squared_initial_residual = dot(f, f)
          /\ pc = "exit"
                => /\ Len(p_squared_residuals) = Len(p_times)
                   /\ Len(p_squared_residuals)
                         = n_linear_solves - (IF LinearSolveFailed THEN 1 ELSE 0))
    /\ [][(pc \in InLoop)
             => (/\ p_squared_initial_residual' = p_squared_initial_residual
                 /\ IF pc = "record"
                    THEN /\ p_squared_residuals'
                               = Append(p_squared_residuals, R_squared_norm)
                         /\ Len(p_times') = Len(p_times) + 1
                    ELSE UNCHANGED <<p_squared_residuals, p_times>>)]_vars

\* the exit of a solve of two iterations, entered after an earlier solve had
\* moved the position, whose first recorded residual is not its initial residual
C22_Witness ==
    /\ pc = "exit"
    /\ Len(p_squared_residuals) = 2 /\ n_linear_solves = 2
    /\ x_entry /= Zero
    /\ p_squared_initial_residual /= p_squared_residuals[1]

----------------------------------------------------------------------------
\* right-hand side assemblies of a solve of which completed iterations were
\* followed by a re-assembly
RhsAssemblies(completed) ==
    1 + (IF d_newton_iterations > 1 THEN completed ELSE 0)

\* C23: the steps of an iteration come in the order matrix clear and assembly,
\* linear solve, propagation, residual re-assembly (newton_iterations > 1),
\* accumulation into U, recording, divergence check, convergence checks, clear
\* of dx: at each step the steps before it have been done once for this
\* iteration and the steps after it not yet; the initial residual is assembled
\* once before the first iteration.
C23_StepOrder ==
    LET completed == Len(p_squared_residuals) IN
    /\ LoopEntry => (n_rhs_assemblies = 1 /\ n_linear_solves = 0 /\ completed = 0)
    /\ pc = "assemble"
          => (n_assemblies = completed /\ n_linear_solves = completed)
    /\ pc = "linear_solve"
          => (p_A = "assembled" /\ n_assemblies = completed + 1
              /\ n_linear_solves = completed)
    /\ pc = "propagate"
          => (solved /\ n_linear_solves = completed + 1 /\ dx = Zero)
    /\ pc = "update_force"
          => (dx = p_DX /\ n_rhs_assemblies = RhsAssemblies(completed))
    /\ pc = "update_U"
          => (n_rhs_assemblies = RhsAssemblies(completed + 1)
              /\ R_squared_norm = dot(p_F, p_F)
              /\ n_linear_solves = completed + 1)
    /\ pc = "record"
          => (dx_squared_norm = dot(dx, dx) /\ du_squared_norm = dot(p_U, p_U)
              /\ n_linear_solves = completed + 1)
    /\ pc = "check_divergence"
          => (n_linear_solves = completed /\ n_assemblies = completed
              /\ p_squared_residuals[completed] = R_squared_norm
              /\ ~diverged /\ ~converged)
    /\ pc = "check_convergence"
          => (~Diverging /\ ~diverged /\ ~converged /\ dx = p_DX)
    /\ pc = "clear_dx"
          => (~CorrectionMet /\ ~ResidualMet /\ ~converged /\ dx = p_DX)
    /\ (pc = "loop" /\ ~LoopEntry)
          => (dx = Zero /\ n_assemblies = completed /\ n_linear_solves = completed
              /\ n_rhs_assemblies = RhsAssemblies(completed))

\* the second iteration of a solve has gone through all its steps and control
\* is back at the loop test
C23_Witness ==
    /\ pc = "loop" /\ Len(p_squared_residuals) = 2
    /\ n_assemblies = 2 /\ n_linear_solves = 2 /\ n_rhs_assemblies = 3
    /\ p_U /= Zero /\ dx = Zero

----------------------------------------------------------------------------
\* C24: with newton_iterations = 1 a solve assembles the residual once, before
\* the loop, and not again after the position update; the squared residual
\* recorded for its one iteration is squared_initial_residual.
C24_SingleIterationReusesResidual ==
    (d_newton_iterations = 1 /\ (pc \in InLoop \/ pc = "exit"))
        => /\ n_rhs_assemblies = 1
           /\ Len(p_squared_residuals) <= 1
           /\ Len(p_squared_residuals) = 1
                 => p_squared_residuals[1] = p_squared_initial_residual

\* a solve with newton_iterations = 1 that moved the position and recorded its
\* initial residual
C24_Witness ==
    /\ pc = "exit" /\ d_newton_iterations = 1
    /\ Len(p_squared_residuals) = 1 /\ n_rhs_assemblies = 1
    /\ x /= x_entry
    /\ p_squared_residuals[1] = p_squared_initial_residual
    /\ p_squared_initial_residual /= Zero

----------------------------------------------------------------------------
\* the squared residual of the spring at position p
SpringResidual(p) == dot(SpringForce(p), SpringForce(p))

\* C25: in the spring scene with newton_iterations > 1, once an iteration has
\* propagated its increment the right-hand side is the force of the spring at
\* the new position and nothing more, the squared residual measured and
\* recorded for the iteration is its squared norm, and the linear solve of the
\* next iteration is given that same right-hand side.
C25_ResidualReassembled ==
    d_newton_iterations > 1 =>
        /\ pc \in {"update_U", "record"}
              => /\ p_F = SpringForce(x) /\ f = SpringForce(x)
                 /\ R_squared_norm = SpringResidual(x)
        /\ (pc \in {"check_divergence", "check_convergence", "clear_dx",
                    "after_loop", "exit"}
            /\ Len(p_squared_residuals) >= 1)
              => /\ p_squared_residuals[Len(p_squared_residuals)]
                       = SpringResidual(x)
                 /\ p_F = SpringForce(x)
        /\ pc \in {"assemble", "linear_solve"} => p_F = SpringForce(x)

\* a solve of two iterations from a position off the equilibrium: both recorded
\* residuals are those of the equilibrium reached, not the initial one
C25_Witness ==
    /\ pc = "exit" /\ d_newton_iterations > 1
    /\ Len(p_squared_residuals) = 2
    /\ p_squared_initial_residual /= Zero
    /\ p_squared_residuals[1] = Zero /\ p_squared_residuals[2] = Zero
    /\ x /= x_entry

----------------------------------------------------------------------------
\* position and velocity are those of the entry of the solve moved by U
MovedByU ==
    /\ x = Norm(FAdd(x_entry, p_U))
    /\ v = Norm(FAdd(v_entry, p_U))

\* C26: a solve stopped by the divergence check has completed the iteration
\* that stopped it: the time and the squared residual of that iteration are the
\* last entries of the histories and its increment is in dx, in U and in
\* position and velocity; a solve stopped by a failed linear solve has
\* recorded nothing for that iteration and applied no increment in it.
C26_DivergedIterationCompleted ==
    /\ (pc = "exit" /\ reason = "diverged")
          => /\ diverged /\ n_linear_solves >= 1
             /\ Len(p_squared_residuals) = n_linear_solves
             /\ Len(p_times) = n_linear_solves
             /\ p_squared_residuals[n_linear_solves] = R_squared_norm
             /\ dx = p_DX /\ du_squared_norm = dot(p_U, p_U)
             /\ MovedByU
    /\ (pc = "exit" /\ LinearSolveFailed)
          => /\ diverged
             /\ Len(p_squared_residuals) = n_linear_solves - 1
             /\ Len(p_times) = n_linear_solves - 1
             /\ dx = Zero
             /\ MovedByU

\* a solve stopped by the divergence check in its second iteration, on a NaN
\* increment that reached the position
C26_Witness ==
    /\ pc = "exit" /\ reason = "diverged"
    /\ Len(p_squared_residuals) = 2
    /\ isnan(dx) /\ isnan(x) /\ ~isnan(x_entry)

----------------------------------------------------------------------------
\* C27: U and dx are zero when the loop is entered; dx is zero from the loop
\* test to the propagation; from the propagation to the accumulation dx is the
\* increment of the linear solve and the position is the entry position moved
\* by U and by dx; from the accumulation on, the position is the entry
\* position moved by U: U is the sum of the increments propagated in this
\* solve, each added once.
C27_RunningTotal ==
    /\ LoopEntry => (p_U = Zero /\ dx = Zero)
    /\ pc \in {"loop", "assemble", "linear_solve", "propagate"}
          => (dx = Zero /\ MovedByU)
    /\ pc \in {"update_force", "update_U"}
          => /\ dx = p_DX
             /\ x = Norm(FAdd(FAdd(x_entry, p_U), dx))
             /\ v = Norm(FAdd(FAdd(v_entry, p_U), dx))
    /\ pc \in {"record", "check_divergence", "check_convergence", "clear_dx"}
          => (dx = p_DX /\ MovedByU)

\* the second iteration of a solve has added its increment to the one of the
\* first iteration, the solve having started from a position an earlier solve
\* left
C27_Witness ==
    /\ pc = "record" /\ Len(p_squared_residuals) = 1
    /\ x_entry /= Zero
    /\ dx = R(1) /\ p_U = R(2)
    /\ MovedByU

----------------------------------------------------------------------------
\* C28: at the exit of a solve that ran, position and velocity are those of
\* the entry moved by U, whether the solve converged, diverged or used up its
\* iterations; a solve stopped by a failed linear solve in its first iteration
\* has moved nothing.
C28_PositionIsEntryPlusU ==
    pc = "exit"
        => /\ MovedByU
           /\ n_linear_solves = 0 => (p_U = Zero /\ x = x_entry /\ v = v_entry)
           /\ (LinearSolveFailed /\ n_linear_solves = 1)
                 => (p_U = Zero /\ x = x_entry /\ v = v_entry)

\* a solve that used up two iterations without converging and left the
\* position at its last iterate
C28_Witness ==
    /\ pc = "exit" /\ reason = "max_iterations"
    /\ Len(p_squared_residuals) = 2
    /\ ~d_converged /\ ~diverged
    /\ p_U = R(2) /\ x /= x_entry /\ MovedByU

----------------------------------------------------------------------------
\* C29: dx is cleared at the end of every iteration that neither converged nor
\* diverged, the last one before the iterations run out included, and at no
\* other end of an iteration: at the exit of a solve stopped by a convergence
\* criterion or by the divergence check dx is the increment of the last linear
\* solve, and at the exit of a solve that ran out of iterations it is zero.
C29_DxClearedOnContinue ==
    /\ (pc = "loop" /\ ~LoopEntry) => dx = Zero
    /\ (pc \in {"after_loop", "exit"} /\ IterationRecorded)
          => /\ (converged \/ diverged) => dx = p_DX
             /\ (~converged /\ ~diverged) => dx = Zero

\* a solve stopped by the correction criterion in its second iteration, dx
\* holding the increment of that iteration
C29_Witness ==
    /\ pc = "exit" /\ reason = "correction"
    /\ Len(p_squared_residuals) = 2
    /\ dx = p_DX /\ dx /= Zero

----------------------------------------------------------------------------
\* C30: at the exit of a solve the value stored as nb_iterations, n_it + 1 on
\* the decremented unsigned counter, is the number of completed iterations,
\* the length of squared_residuals, also when no iteration was completed and
\* the decrement wrapped to 2^32 - 1; the value stored as has_converged is 1
\* when the converged output is true and 0 when it is false.
C30_IterationCountTelemetry ==
    pc = "exit"
        => /\ Len(timer_values) = 2
           /\ timer_values[2] = U32(Len(p_squared_residuals))
           /\ timer_values[1] = (IF d_converged THEN 1 ELSE 0)
           /\ Len(p_squared_residuals) = 0 => n_it = <<Half - 1, Half - 1>>

\* a solve stopped by a failed linear solve in its first iteration: the counter
\* wrapped and the stored count is 0
C30_Witness ==
    /\ pc = "exit" /\ LinearSolveFailed
    /\ Len(p_squared_residuals) = 0
    /\ n_it = <<Half - 1, Half - 1>>
    /\ timer_values = <<0, <<0, 0>>>>

----------------------------------------------------------------------------
\* both tolerances are at most 1
TolerancesAtMostOne ==
    /\ FLe(d_correction_tolerance_threshold, R(1))
    /\ FLe(d_residual_tolerance_threshold, R(1))

----------------------------------------------------------------------------
\* caribou::topology::Domain: the objects, the storage of their index tables
\* and the caller's index array.  Storage is a set of blocks; a block is never
\* handed out twice, so that a view on a freed block is told from a valid one.

MaxNode == 1                         \* node indices are 0..MaxNode
MaxElements == 1                     \* most rows of an index table
MaxAddr == 4                         \* blocks of storage
NumberOfNodesAtCompileTime == 2
ExternalArray == 1                   \* the block of the caller's index array
Meshes == {1, 2}
Names == {"a", "b"}

ElementIndices == [1..NumberOfNodesAtCompileTime -> 0..MaxNode]
ElementsIndices == UNION {[1..n -> ElementIndices] : n \in 0..MaxElements}

Unused == [state |-> "unused", data |-> <<>>]
Freed == [state |-> "freed", data |-> <<>>]
Live(t) == [state |-> "live", data |-> t]
CanAllocate == \E k \in 2..MaxAddr : heap[k].state = "unused"
NewBlock == CHOOSE k \in 2..MaxAddr :
                /\ heap[k].state = "unused"
                /\ \A j \in 2..(k - 1) : heap[j].state /= "unused"

\* everything but the Domain objects and their storage
rest == <<d_newton_iterations, d_correction_tolerance_threshold,
          d_residual_tolerance_threshold, stiffness, target, prev_outputs,
          context, l_index, init_report, other_calls, other_reports,
          l_linear_solver, error_message_already_printed, outputs,
          error_reported, vectors, buffers, locals, pc, last_call, observed>>
grid == <<m_number_of_subdivisions, m_cells, grid_call>>

\* one solver, not called
SolverIdle ==
    /\ InitSolver
    /\ d_newton_iterations = 1
    /\ d_correction_tolerance_threshold = R(1)
    /\ d_residual_tolerance_threshold = R(1)
    /\ l_linear_solver = "null"
    /\ stiffness = 1 /\ target = 0
    /\ prev_outputs = <<>>
    /\ context = <<>> /\ l_index = 0
    /\ init_report = <<>>
    /\ other_calls = <<>> /\ other_reports = <<>>

InitDomain ==
    /\ SolverIdle
    /\ \E t \in ElementsIndices :
          heap = [k \in 1..MaxAddr |-> IF k = ExternalArray THEN Live(t) ELSE Unused]
    /\ domains = [n \in Names |-> Null]
    /\ domain_call = NoDomainCall
    /\ m_number_of_subdivisions = <<1, 1>>
    /\ m_cells = <<>>
    /\ grid_call = NoGridCall

\* p_elements: an Eigen::Map, the address it reads and its number of rows
Map(data, rows) == [data |-> data, rows |-> rows]

\* Domain(const Mesh *, const ElementsIndices &): the array is copied into
\* p_buffer and p_elements is a view of p_buffer
ConstructCopy(n, mesh) ==
    /\ domains[n] = Null
    /\ heap[ExternalArray].state = "live"
    /\ CanAllocate
    /\ LET k == NewBlock
           elements == heap[ExternalArray].data
       IN /\ heap' = [heap EXCEPT ![k] = Live(elements)]
          /\ domains' = [domains EXCEPT ![n] =
                            [p_mesh |-> mesh, p_buffer |-> k,
                             p_elements |-> Map(k, Len(elements)),
                             origin |-> "constructor"]]
    /\ domain_call' = Call("construct", n, "", 0, 0, "done", Null)
    /\ UNCHANGED <<grid, rest>>

\* Domain(const Mesh *, const ElementsIndices *): p_buffer is empty and
\* p_elements is a view of the caller's array
ConstructMapped(n, mesh) ==
    /\ domains[n] = Null
    /\ heap[ExternalArray].state = "live"
    /\ domains' = [domains EXCEPT ![n] =
                      [p_mesh |-> mesh, p_buffer |-> 0,
                       p_elements |-> Map(ExternalArray,
                                          Len(heap[ExternalArray].data)),
                       origin |-> "constructor"]]
    /\ domain_call' = Call("construct", n, "", 0, 0, "done", Null)
    /\ UNCHANGED <<heap, grid, rest>>

\* Domain(const Domain & other): p_mesh(other.p_mesh), p_buffer(other.p_buffer),
\* p_elements(other.p_elements); k is the block of the new p_buffer (0: empty)
CopyConstructed(other, k, origin) ==
    [p_mesh |-> other.p_mesh, p_buffer |-> k, p_elements |-> other.p_elements,
     origin |-> origin]
\* the storage once the copy of other.p_buffer is made
CopiedBuffer(other, k) ==
    IF k = 0 THEN heap ELSE [heap EXCEPT ![k] = Live(heap[other.p_buffer].data)]
BufferOfCopy(other) == IF other.p_buffer = 0 THEN 0 ELSE NewBlock

\* Domain n(m)
CopyConstruct(n, m) ==
    /\ domains[n] = Null /\ domains[m] /= Null
    /\ domains[m].p_buffer /= 0 => CanAllocate
    /\ LET k == BufferOfCopy(domains[m])
       IN /\ heap' = CopiedBuffer(domains[m], k)
          /\ domains' = [domains EXCEPT ![n] = CopyConstructed(domains[m], k, "copy")]
    /\ domain_call' = Call("copy", n, m, 0, 0, "done", domains[m])
    /\ UNCHANGED <<grid, rest>>

\* n = m.clone(): new Domain(*this)
clone(n, m) ==
    /\ domains[n] = Null /\ domains[m] /= Null
    /\ domains[m].p_buffer /= 0 => CanAllocate
    /\ LET k == BufferOfCopy(domains[m])
       IN /\ heap' = CopiedBuffer(domains[m], k)
          /\ domains' = [domains EXCEPT ![n] = CopyConstructed(domains[m], k, "clone")]
    /\ domain_call' = Call("clone", n, m, 0, 0, "done", domains[m])
    /\ UNCHANGED <<grid, rest>>

\* swap(Domain & first, Domain & second): p_buffer and p_elements change hands
swap(first, second) ==
    <<[first EXCEPT !.p_buffer = second.p_buffer, !.p_elements = second.p_elements],
      [second EXCEPT !.p_buffer = first.p_buffer, !.p_elements = first.p_elements]>>

\* ~Domain(): p_buffer releases its block
Destroyed(h, d) == IF d.p_buffer = 0 THEN h ELSE [h EXCEPT ![d.p_buffer] = Freed]

\* n = m, operator=(Domain other): the parameter is copy-constructed from m,
\* swapped with *this and destroyed on return
Assign(n, m) ==
    /\ domains[n] /= Null /\ domains[m] /= Null
    /\ domains[m].p_buffer /= 0 => CanAllocate
    /\ LET k == BufferOfCopy(domains[m])
           other == CopyConstructed(domains[m], k, "copy")
           swapped == swap(domains[n], other)
       IN /\ domains' = [domains EXCEPT ![n] = swapped[1]]
          /\ heap' = Destroyed(CopiedBuffer(domains[m], k), swapped[2])
    /\ domain_call' = Call("assign", n, m, 0, 0, "done", domains[m])
    /\ UNCHANGED <<grid, rest>>

\* the Domain object n goes out of scope
Destroy(n) ==
    /\ domains[n] /= Null
    /\ heap' = Destroyed(heap, domains[n])
    /\ domains' = [domains EXCEPT ![n] = Null]
    /\ domain_call' = Call("destroy", n, "", 0, 0, "done", Null)
    /\ UNCHANGED <<grid, rest>>

\* the caller writes other indices into its array
ModifyArray ==
    /\ heap[ExternalArray].state = "live"
    /\ \E t \in ElementsIndices :
          /\ Len(t) = Len(heap[ExternalArray].data)
          /\ t /= heap[ExternalArray].data
          /\ heap' = [heap EXCEPT ![ExternalArray] = Live(t)]
    /\ domain_call' = Call("modify array", "", "", 0, 0, "done", Null)
    /\ UNCHANGED <<domains, grid, rest>>

\* the caller deletes its array
DestroyArray ==
    /\ heap[ExternalArray].state = "live"
    /\ heap' = [heap EXCEPT ![ExternalArray] = Freed]
    /\ domain_call' = Call("destroy array", "", "", 0, 0, "done", Null)
    /\ UNCHANGED <<domains, grid, rest>>

number_of_elements(d) == d.p_elements.rows

\* caribou_assert(condition): the call stops when the condition is false
caribou_assert(condition) == condition

\* the view of d reads storage that holds a table with the row asked for
ValidRow(d, index) ==
    /\ heap[d.p_elements.data].state = "live"
    /\ index < Len(heap[d.p_elements.data].data)
\* p_elements.row(index)
Row(d, index) == heap[d.p_elements.data].data[index + 1]

\* what a read outside a table or of released storage can do: the values found
\* there are returned, or the process is stopped by the system
OutsideRead == {"read outside", "crash"}

\* element_indices(index): the assertion, then the row is read where
\* p_elements points
element_indices_outcomes(d, index) ==
    IF ~caribou_assert(index < number_of_elements(d)) THEN {"fault"}
    ELSE IF ~ValidRow(d, index) THEN OutsideRead
    ELSE {"indices"}

\* positions.row(node_indices[i]) for every node of the element: no test of
\* the node index against positions.rows() is made; Eigen's own assertion is
\* there in the builds that keep it
NodesInside(node_indices, rows) ==
    \A i \in 1..NumberOfNodesAtCompileTime : node_indices[i] < rows
element_outcomes(d, element_id, rows) ==
    IF ~caribou_assert(element_id < number_of_elements(d)) THEN {"fault"}
    ELSE IF ~ValidRow(d, element_id) THEN OutsideRead
    ELSE IF ~NodesInside(Row(d, element_id), rows) THEN {"fault", "read outside"}
    ELSE {"element"}

element_indices(n, index) ==
    /\ domains[n] /= Null
    /\ \E outcome \in element_indices_outcomes(domains[n], index) :
          domain_call' = Call("element_indices", n, "", index, 0, outcome, Null)
    /\ UNCHANGED <<heap, domains, grid, rest>>

element(n, element_id, rows) ==
    /\ domains[n] /= Null
    /\ \E outcome \in element_outcomes(domains[n], element_id, rows) :
          domain_call' = Call("element", n, "", element_id, rows, outcome, Null)
    /\ UNCHANGED <<heap, domains, grid, rest>>

NextDomain ==
    \/ \E n \in Names, mesh \in Meshes : ConstructCopy(n, mesh)
    \/ \E n \in Names, mesh \in Meshes : ConstructMapped(n, mesh)
    \/ \E n, m \in Names : CopyConstruct(n, m)
    \/ \E n, m \in Names : clone(n, m)
    \/ \E n, m \in Names : Assign(n, m)
    \/ \E n \in Names : Destroy(n)
    \/ ModifyArray
    \/ DestroyArray
    \/ \E n \in Names, index \in 0..MaxElements : element_indices(n, index)
    \/ \E n \in Names, element_id \in 0..MaxElements, rows \in 1..(MaxNode + 1) :
          element(n, element_id, rows)

SpecDomain == InitDomain /\ [][NextDomain]_vars

\* the last call was made on a domain whose view reads a live table
CallOnValidView ==
    /\ domain_call.op \in {"element", "element_indices"}
    /\ heap[domains[domain_call.a].p_elements.data].state = "live"
    /\ Len(heap[domains[domain_call.a].p_elements.data].data)
          = number_of_elements(domains[domain_call.a])

\* the last call asked for an element the domain has not, or for an element
\* one of whose nodes is not a row of positions
Malformed ==
    \/ domain_call.index >= number_of_elements(domains[domain_call.a])
    \/ /\ domain_call.op = "element"
       /\ ~NodesInside(Row(domains[domain_call.a], domain_call.index),
                       domain_call.rows)

\* C32: element and element_indices called with an element id that is not an
\* element of the domain, or for an element with a node index that is not a
\* row of positions, stop with a fault; no row outside the index table or
\* outside positions is read.
C32_FailFast ==
    (CallOnValidView /\ Malformed) => domain_call.outcome = "fault"

\* the domain stores its connectivity itself: its p_buffer holds a table
Internal(d) == d /= Null /\ d.p_buffer /= 0

\* C33: the view p_elements of every domain that stores its connectivity
\* itself reads that domain's own p_buffer, whatever constructions, copies,
\* clones and assignments were made, and so reads storage that is still there
\* when the caller's array or the domain it was copied from is gone.
C33_ViewOfOwnBuffer ==
    \A n \in Names :
        Internal(domains[n]) =>
            /\ domains[n].p_elements.data = domains[n].p_buffer
            /\ heap[domains[n].p_elements.data].state = "live"

\* C34: after the assignment a = b of two domains, b is as it was, a has the
\* mesh of b, as many elements as b and the same node indices in every element.
C34_AssignCopies ==
    (domain_call.op = "assign" /\ domain_call.a /= domain_call.b) =>
        LET a == domains[domain_call.a]
            b == domains[domain_call.b]
        IN /\ b = domain_call.before
           /\ a.p_mesh = b.p_mesh
           /\ number_of_elements(a) = number_of_elements(b)
           /\ \A i \in 0..(number_of_elements(b) - 1) :
                 /\ ValidRow(a, i) /\ ValidRow(b, i)
                 /\ Row(a, i) = Row(b, i)

----------------------------------------------------------------------------
\* caribou::topology::engine::Grid: a grid of nx by ny cells and the two
\* overloads of get.  A cell is named by its place in m_cells.

MaxSub == 3                          \* most subdivisions in a direction
MaxStack == 3                        \* frames the call stack has room for

GridCoordinates == (0..MaxSub) \X (0..MaxSub)

InitGrid ==
    /\ SolverIdle
    /\ heap = <<>>
    /\ domains = <<>>
    /\ domain_call = NoDomainCall
    /\ m_number_of_subdivisions \in (1..MaxSub) \X (1..MaxSub)
    /\ m_cells = [k \in 1..(m_number_of_subdivisions[1] * m_number_of_subdivisions[2])
                     |-> k - 1]
    /\ grid_call = NoGridCall

\* the grid coordinates are inside the subdivisions of the grid
InsideGrid(grid_coordinates) ==
    /\ grid_coordinates[1] < m_number_of_subdivisions[1]
    /\ grid_coordinates[2] < m_number_of_subdivisions[2]

\* cell_index(grid_coordinates) of coordinates inside the grid
cell_index(grid_coordinates) ==
    grid_coordinates[2] * m_number_of_subdivisions[1] + grid_coordinates[1]

\* no call of get is running and the process is alive
GridCallable == grid_call.pc \in {"idle", "returned", "out_of_range"}

\* CellType & get(const VecInt &): m_cells[cell_index(grid_coordinates)];
\* cell_index throws std::out_of_range outside the grid
get(grid_coordinates) ==
    /\ GridCallable
    /\ grid_call' =
          IF InsideGrid(grid_coordinates)
          THEN [pc |-> "returned", depth |-> 0,
                grid_coordinates |-> grid_coordinates,
                result |-> m_cells[cell_index(grid_coordinates) + 1]]
          ELSE [pc |-> "out_of_range", depth |-> 0,
                grid_coordinates |-> grid_coordinates, result |-> -1]
    /\ UNCHANGED <<heap, domains, domain_call, m_number_of_subdivisions, m_cells,
                   rest>>

\* const CellType & get(const VecInt &) const is entered
get_const(grid_coordinates) ==
    /\ GridCallable
    /\ grid_call' = [pc |-> "get const", depth |-> 1,
                     grid_coordinates |-> grid_coordinates, result |-> -1]
    /\ UNCHANGED <<heap, domains, domain_call, m_number_of_subdivisions, m_cells,
                   rest>>

\* its body, return get(grid_coordinates): this is const in a const member
\* function, so the call is to the const overload again; each call takes a
\* frame until the stack has no room left
get_const_body ==
    /\ grid_call.pc = "get const"
    /\ grid_call' =
          IF grid_call.depth < MaxStack
          THEN [grid_call EXCEPT !.depth = @ + 1]
          ELSE [grid_call EXCEPT !.pc = "stack overflow"]
    /\ UNCHANGED <<heap, domains, domain_call, m_number_of_subdivisions, m_cells,
                   rest>>

NextGrid ==
    \/ \E grid_coordinates \in GridCoordinates : get(grid_coordinates)
    \/ \E grid_coordinates \in GridCoordinates : get_const(grid_coordinates)
    \/ get_const_body

\* a call that was entered runs on
SpecGrid == InitGrid /\ [][NextGrid]_vars /\ WF_vars(get_const_body)

\* C35: every call of get on a const grid with coordinates inside the grid
\* returns, and what a call of get returns is the cell
\* m_cells[cell_index(grid_coordinates)].
C35_ConstGetReturns ==
    /\ (grid_call.pc = "get const" /\ InsideGrid(grid_call.grid_coordinates))
          ~> (grid_call.pc = "returned")
    /\ [](grid_call.pc = "returned" =>
             grid_call.result = m_cells[cell_index(grid_call.grid_coordinates) + 1])

====
